---------------------------- MODULE Spec2Model ----------------------------
(***************************************************************************)
(* The dialogue transcoders of assets/js/utilities.js: platoHtmlToCmj,     *)
(* platoHtmlToPlatoText, platoTextToPlatoHtml, platoTextToCmj and          *)
(* CmjToPlatoText.                                                         *)
(*                                                                         *)
(* A JavaScript string is a sequence of one-character strings.  Positions  *)
(* kept in the state (lastIndex, match.index) are JavaScript's, counted    *)
(* from 0; the helpers that walk a sequence take TLA+ positions, counted   *)
(* from 1.                                                                 *)
(***************************************************************************)
EXTENDS Integers, Sequences, FiniteSets, TLC

(***************************************************************************)
(* Characters.                                                             *)
(***************************************************************************)
LowerLetters ==
  <<"a", "b", "c", "d", "e", "f", "g", "h", "i", "j", "k", "l", "m",
    "n", "o", "p", "q", "r", "s", "t", "u", "v", "w", "x", "y", "z">>

UpperLetters ==
  <<"A", "B", "C", "D", "E", "F", "G", "H", "I", "J", "K", "L", "M",
    "N", "O", "P", "Q", "R", "S", "T", "U", "V", "W", "X", "Y", "Z">>

Digits == {"0", "1", "2", "3", "4", "5", "6", "7", "8", "9"}

Range(f) == {f[i] : i \in DOMAIN f}

\* The character class [A-Za-z0-9_ -] of the block pattern.
LabelChars == Range(LowerLetters) \cup Range(UpperLetters) \cup Digits \cup {"_", " ", "-"}

\* The characters \s and trim() treat as white space, among those the inputs use.
WhiteSpace == {" ", "\t", "\n", "\r"}

(***************************************************************************)
(* String primitives of the JavaScript runtime, as the code uses them.     *)
(***************************************************************************)
\* First position >= i of s whose character is outside C (Len(s) + 1 if none).
RECURSIVE RunEnd(_, _, _)
RunEnd(s, i, C) ==
  IF i <= Len(s) /\ s[i] \in C THEN RunEnd(s, i + 1, C) ELSE i

\* Last position <= i of s whose character is outside C (0 if none).
RECURSIVE RunStart(_, _, _)
RunStart(s, i, C) ==
  IF i >= 1 /\ s[i] \in C THEN RunStart(s, i - 1, C) ELSE i

\* String.prototype.trimEnd
TrimEnd(s) == SubSeq(s, 1, RunStart(s, Len(s), WhiteSpace))

\* String.prototype.trim
Trim(s) ==
  LET e == RunStart(s, Len(s), WhiteSpace)
  IN  SubSeq(s, RunEnd(s, 1, WhiteSpace), e)

ToUpperChar(c) ==
  IF c \in Range(LowerLetters)
  THEN UpperLetters[CHOOSE i \in DOMAIN LowerLetters : LowerLetters[i] = c]
  ELSE c

\* String.prototype.toUpperCase
ToUpperCase(s) == [i \in 1..Len(s) |-> ToUpperChar(s[i])]

StartsWithAt(s, i, lit) ==
  /\ i + Len(lit) - 1 <= Len(s)
  /\ (lit = <<>> \/ s[i] = lit[1])
  /\ SubSeq(s, i, i + Len(lit) - 1) = lit

\* The least element of a non-empty set of positions.
MinOf(S) == CHOOSE x \in S : \A y \in S : x <= y

\* First position >= i at which lit occurs in s (0 if none).
IndexOfFrom(s, lit, i) ==
  LET at == {k \in i..(Len(s) - Len(lit) + 1) : StartsWithAt(s, k, lit)}
  IN  IF at = {} THEN 0 ELSE MinOf(at)

\* s.replace(pattern, '') with a string pattern: the first occurrence is removed.
ReplaceFirst(s, pattern) ==
  LET at == IndexOfFrom(s, pattern, 1)
  IN  IF at = 0 THEN s
      ELSE SubSeq(s, 1, at - 1) \o SubSeq(s, at + Len(pattern), Len(s))

\* s.replace(/:\s*/, ''): the first ':' of s and the white space after it are removed.
ReplaceColonSpace(s) ==
  LET at == IndexOfFrom(s, <<":">>, 1)
  IN  IF at = 0 THEN s
      ELSE SubSeq(s, 1, at - 1) \o SubSeq(s, RunEnd(s, at + 1, WhiteSpace), Len(s))

\* A faulty variant of EscapeHtml: only '<' is escaped.
RECURSIVE EscapeRange_ltOnly(_, _, _)
EscapeRange_ltOnly(s, lo, hi) ==
  IF lo > hi THEN <<>>
  ELSE IF lo = hi
  THEN (IF s[lo] = "<" THEN <<"&", "l", "t", ";">> ELSE <<s[lo]>>)
  ELSE EscapeRange_ltOnly(s, lo, (lo + hi) \div 2)
         \o EscapeRange_ltOnly(s, (lo + hi) \div 2 + 1, hi)

EscapeHtml_ltOnly(s) == EscapeRange_ltOnly(s, 1, Len(s))

\* s.replace(/</g, '&lt;').replace(/>/g, '&gt;'), on the characters lo..hi of s
\* (the two halves are escaped on their own: a character is replaced whatever
\* is around it).
RECURSIVE EscapeRange(_, _, _)
EscapeRange(s, lo, hi) ==
  IF lo > hi THEN <<>>
  ELSE IF lo = hi
  THEN (IF s[lo] = "<" THEN <<"&", "l", "t", ";">>
        ELSE IF s[lo] = ">" THEN <<"&", "g", "t", ";">>
        ELSE <<s[lo]>>)
  ELSE EscapeRange(s, lo, (lo + hi) \div 2) \o EscapeRange(s, (lo + hi) \div 2 + 1, hi)

EscapeHtml(s) == EscapeRange(s, 1, Len(s))

(***************************************************************************)
(* The block pattern /([A-Za-z0-9_ -]+):\s*(.*?)\n\n/gs and RegExp.exec.   *)
(***************************************************************************)
\* First position >= i where "\n\n" starts (0 if none): where the lazy (.*?)
\* followed by \n\n stops when the content starts at i.
FindBlankLine(s, i) == IndexOfFrom(s, <<"\n", "\n">>, i)

\* The greedy \s* gives characters back one at a time: the content starts at the
\* last position c in k..from that still has a blank line at or after it (0 if none).
RECURSIVE Backtrack(_, _, _)
Backtrack(s, k, c) ==
  IF FindBlankLine(s, c) # 0 THEN c
  ELSE IF c > k THEN Backtrack(s, k, c - 1)
  ELSE 0

NoMatch == [found |-> FALSE, index |-> 0, end |-> 0, label |-> <<>>, content |-> <<>>]

\* The match that starts at JavaScript index i, if there is one.  The greedy
\* label takes the whole run of label characters from i; a shorter label would
\* have to be followed by ':', which is no label character.
MatchAt(s, i) ==
  LET j == RunEnd(s, i + 1, LabelChars)
      c == Backtrack(s, j + 1, RunEnd(s, j + 1, WhiteSpace))
  IN  IF j = i + 1 \/ j > Len(s) THEN NoMatch
      ELSE IF s[j] # ":" THEN NoMatch
      ELSE IF c = 0 THEN NoMatch
      ELSE [found |-> TRUE, index |-> i, end |-> FindBlankLine(s, c) + 1,
            label |-> SubSeq(s, i + 1, j - 1),
            content |-> SubSeq(s, c, FindBlankLine(s, c) - 1)]

\* A faulty variant of RegexExec: the pattern without its g flag, every search from the start.
RegexExec_fromStart(s, lastIndex) ==
  LET starts == {i \in 0..(Len(s) - 1) : MatchAt(s, i).found}
  IN  IF starts = {} THEN NoMatch ELSE MatchAt(s, MinOf(starts))

\* regex.exec(s) with regex.lastIndex = lastIndex: the leftmost match at or after
\* it (null, here NoMatch, if there is none).
RegexExec(s, lastIndex) ==
  LET starts == {i \in lastIndex..(Len(s) - 1) : MatchAt(s, i).found}
  IN  IF starts = {} THEN NoMatch ELSE MatchAt(s, MinOf(starts))

(***************************************************************************)
(* JavaScript values.  Every value is a record with the same fields: t is  *)
(* its type, s the characters of a string, a the elements of an array.     *)
(* An array element is a record [t, role, name, content] whose three       *)
(* properties are values (undefined where the element has none).           *)
(***************************************************************************)
Str(chars) == [t |-> "string", s |-> chars, a |-> <<>>]

Arr(elements) == [t |-> "array", s |-> <<>>, a |-> elements]

\* null, undefined, the number 0 ("zero"), another number, an object that is no array.
Prim(type) == [t |-> type, s |-> <<>>, a |-> <<>>]

Undefined == Prim("undefined")

\* !v
Falsy(v) == v.t \in {"null", "undefined", "zero"} \/ (v.t = "string" /\ v.s = <<>>)

\* typeof v === 'string'
TypeofString(v) == v.t = "string"

\* Array.isArray(v)
IsArray(v) == v.t = "array"

\* The object literal { role: role, name: speaker, content: utterance }.
Message(role, speaker, utterance) ==
  [t |-> "object", role |-> Str(role), name |-> Str(speaker), content |-> Str(utterance)]

\* An array element that is no object with properties: null, undefined, a number.
Element(type) == [t |-> type, role |-> Undefined, name |-> Undefined, content |-> Undefined]

(***************************************************************************)
(* String literals of the code.                                            *)
(***************************************************************************)
sINSTRUCTIONS == <<"I", "N", "S", "T", "R", "U", "C", "T", "I", "O", "N", "S">>

sMACHINA == 
  <<"M", "A", "C", "H", "I", "N", "A", " ", "R", "A", "T", "I", "O", "C",
    "I", "N", "A", "T", "R", "I", "X">>

sUser == <<"u", "s", "e", "r">>

sAssistant == <<"a", "s", "s", "i", "s", "t", "a", "n", "t">>

sSystem == <<"s", "y", "s", "t", "e", "m">>

sPOpenDialogue == 
  <<"<", "p", " ", "c", "l", "a", "s", "s", "=", "\"", "d", "i", "a", "l",
    "o", "g", "u", "e", "\"", ">">>

sSpanOpenSpeaker == 
  <<"<", "s", "p", "a", "n", " ", "c", "l", "a", "s", "s", "=", "\"", "s",
    "p", "e", "a", "k", "e", "r", "\"", ">">>

sSpanClose == <<"<", "/", "s", "p", "a", "n", ">">>

sPClose == <<"<", "/", "p", ">">>

\* The other markup the parser model knows: a paragraph that is no dialogue,
\* and the character references.
sPOpenPlain == <<"<", "p", ">">>

sLt == <<"&", "l", "t", ";">>

sGt == <<"&", "g", "t", ";">>

sAmp == <<"&", "a", "m", "p", ";">>

(***************************************************************************)
(* DOMParser.parseFromString(platoHtml, 'text/html'), for the markup the   *)
(* inputs use: <p class="dialogue">, <p>, </p>, <span class="speaker">,    *)
(* </span> (spans are not nested), the references &lt; &gt; &amp; and      *)
(* text.  The document is the sequence of its p elements; a p element has  *)
(* a class and child nodes, each a text node or a span.speaker element     *)
(* with its text.  A p element ends at its end tag, at the next p start    *)
(* tag or with the input; text outside every p belongs to no p element.    *)
(***************************************************************************)
\* The tags and references inside a paragraph; any other character is text.
InlineTokens == {sSpanOpenSpeaker, sSpanClose, sLt, sGt, sAmp}

\* The token at position i, which ends before position hi + 1: a tag, a
\* reference, or the run of text up to the next '<' or '&'.
TokenAt(s, i, hi) ==
  IF \E tok \in InlineTokens : StartsWithAt(s, i, tok)
  THEN CHOOSE tok \in InlineTokens : StartsWithAt(s, i, tok)
  ELSE SubSeq(s, i, MinOf({k \in (i + 1)..(hi + 1) : k = hi + 1 \/ s[k] \in {"<", "&"}}) - 1)

\* The text a token that is no tag stands for.
Decoded(tok) ==
  IF tok = sLt THEN <<"<">> ELSE IF tok = sGt THEN <<">">> ELSE IF tok = sAmp THEN <<"&">> ELSE tok

\* Text is appended to the open span, else to the last text node (a new one after
\* a span or at the start).
AddText(children, inSpan, text) ==
  LET n == Len(children)
  IN  IF n > 0 /\ (inSpan \/ children[n].tag = "#text")
      THEN [children EXCEPT ![n].text = @ \o text]
      ELSE Append(children, [tag |-> "#text", text |-> text])

\* The child nodes built from the characters i..hi of s.
RECURSIVE ChildNodes(_, _, _, _, _)
ChildNodes(s, i, hi, children, inSpan) ==
  IF i > hi THEN children
  ELSE LET tok == TokenAt(s, i, hi)
       IN  IF tok = sSpanOpenSpeaker
           THEN ChildNodes(s, i + Len(tok), hi,
                           IF inSpan THEN children
                           ELSE Append(children, [tag |-> "span.speaker", text |-> <<>>]),
                           TRUE)
           ELSE IF tok = sSpanClose
           THEN ChildNodes(s, i + Len(tok), hi, children, FALSE)
           ELSE ChildNodes(s, i + Len(tok), hi, AddText(children, inSpan, Decoded(tok)), inSpan)

\* The positions of the p start tags, and of everything that ends a p element.
PStarts(s) ==
  {i \in 1..Len(s) : StartsWithAt(s, i, sPOpenDialogue) \/ StartsWithAt(s, i, sPOpenPlain)}

PEnds(s) == PStarts(s) \cup {i \in 1..Len(s) : StartsWithAt(s, i, sPClose)} \cup {Len(s) + 1}

\* The p element whose start tag is at position at.
PElement(s, at) ==
  LET tag == IF StartsWithAt(s, at, sPOpenDialogue) THEN sPOpenDialogue ELSE sPOpenPlain
      end == MinOf({e \in PEnds(s) : e > at})
  IN  [class |-> IF tag = sPOpenDialogue THEN "dialogue" ELSE "",
       children |-> ChildNodes(s, at + Len(tag), end - 1, <<>>, FALSE)]

\* The elements of a set of positions, in increasing order.
Sorted(S) ==
  [k \in 1..Cardinality(S) |-> CHOOSE x \in S : Cardinality({y \in S : y < x}) = k - 1]

ParseFromString(platoHtml) ==
  LET starts == Sorted(PStarts(platoHtml))
  IN  [k \in DOMAIN starts |-> PElement(platoHtml, starts[k])]

\* A faulty variant of QuerySelectorAll: every p element is selected.
QuerySelectorAll_everyP(doc) == doc

\* doc.querySelectorAll('p.dialogue')
QuerySelectorAll(doc) == SelectSeq(doc, LAMBDA p : p.class = "dialogue")

\* p.querySelector('span.speaker'): the first such child, or null.
HasSpeakerSpan(p) == \E k \in DOMAIN p.children : p.children[k].tag = "span.speaker"

SpeakerSpan(p) ==
  p.children[CHOOSE k \in DOMAIN p.children :
               /\ p.children[k].tag = "span.speaker"
               /\ \A h \in 1..(k - 1) : p.children[h].tag # "span.speaker"]

\* node.textContent of a p element: the text of its children, in order.
RECURSIVE ConcatText(_, _)
ConcatText(children, k) ==
  IF k > Len(children) THEN <<>> ELSE children[k].text \o ConcatText(children, k + 1)

TextContent(p) == ConcatText(p.children, 1)

(***************************************************************************)
(* The expressions the five functions are made of.                         *)
(***************************************************************************)
\* A faulty variant of NotNonEmptyString: a string of white space counts as empty.
NotNonEmptyString_blank(v) == ~TypeofString(v) \/ Trim(v.s) = <<>>

\* !platoHtml || typeof platoHtml !== 'string'   (also platoText, in platoTextToCmj)
NotNonEmptyString(v) == Falsy(v) \/ ~TypeofString(v)

\* typeof platoHtml !== 'string'   (also platoText, in platoTextToPlatoHtml)
NotString(v) == ~TypeofString(v)

\* A faulty variant of Blank: only the empty string is blank.
Blank_emptyOnly(chars) == chars = <<>>

\* !platoHtml.trim()   (also platoText, in platoTextToPlatoHtml)
Blank(chars) == Trim(chars) = <<>>

\* speakerSpan.textContent.trim()
MarkupSpeaker(p) == Trim(SpeakerSpan(p).text)

\* p.textContent.replace(speakerSpan.textContent, '').replace(/:\s*/, '').trim()
MarkupUtterance(p) ==
  Trim(ReplaceColonSpace(ReplaceFirst(TextContent(p), SpeakerSpan(p).text)))

\* The role platoHtmlToCmj gives a speaker; machineName is machineConfig.name.
HtmlRole(speaker, machineName) ==
  IF ToUpperCase(speaker) = machineName THEN sAssistant
  ELSE IF ToUpperCase(speaker) = sINSTRUCTIONS THEN sSystem
  ELSE sUser

\* A faulty variant of TextRole: the speaker is compared as written, not upper-cased.
TextRole_caseSensitive(speaker) ==
  IF speaker = sMACHINA THEN sAssistant
  ELSE IF speaker = sINSTRUCTIONS THEN sSystem
  ELSE sUser

\* The role platoTextToCmj gives a speaker.
TextRole(speaker) ==
  IF ToUpperCase(speaker) = sMACHINA THEN sAssistant
  ELSE IF ToUpperCase(speaker) = sINSTRUCTIONS THEN sSystem
  ELSE sUser

\* match[1].trim()
TextSpeaker(m) == Trim(m.label)

\* match[2].trim()
TextUtterance(m) == Trim(m.content)

\* A faulty variant of DialogueLine: one newline ends the line.
DialogueLine_oneNewline(speaker, utterance) ==
  speaker \o <<":", " ">> \o utterance \o <<"\n">>

\* `${speaker}: ${utterance}\n\n`
DialogueLine(speaker, utterance) ==
  speaker \o <<":", " ">> \o utterance \o <<"\n", "\n">>

\* `<p class="dialogue"><span class="speaker">${speaker}</span> ${utterance}</p>\n`
DialogueParagraph(speaker, utterance) ==
  sPOpenDialogue \o sSpanOpenSpeaker \o speaker \o sSpanClose \o <<" ">>
    \o utterance \o sPClose \o <<"\n">>

\* A faulty variant of WellFormedMessage: the content is not looked at.
WellFormedMessage_nameOnly(message) ==
  /\ message.t \notin {"null", "undefined", "zero"}
  /\ TypeofString(message.name)

\* message && typeof message.name === 'string' && typeof message.content === 'string'
WellFormedMessage(message) ==
  /\ message.t \notin {"null", "undefined", "zero"}
  /\ TypeofString(message.name)
  /\ TypeofString(message.content)

(***************************************************************************)
(* The state: one caller that calls a function on its input and may pass   *)
(* the value returned to a second function.                                *)
(***************************************************************************)
VARIABLES
  machineConfig,  \* machineConfig.name, the global platoHtmlToCmj reads
  input,          \* the value the caller starts from
  calls,          \* the functions called so far, the last one running or ended
  pc,             \* "ready", "loop" (inside forEach / while), "returned", "threw"
  arg,            \* the argument of the running call
  paragraphs,     \* doc.querySelectorAll('p.dialogue')
  index,          \* elements forEach has visited
  lastIndex,      \* regex.lastIndex
  match,          \* the last result of regex.exec (NoMatch for null)
  messages,       \* the local array messages
  result,         \* the local string result (platoText in CmjToPlatoText)
  returned        \* the value returned by the last call that returned

vars ==
  <<machineConfig, input, calls, pc, arg, paragraphs, index, lastIndex,
    match, messages, result, returned>>

\* The function that is running or has ended last.
Fn == IF calls = <<>> THEN "none" ELSE calls[Len(calls)]

\* The compositions the caller makes: a function, then another on its result.
Pipelines ==
  { <<"CmjToPlatoText", "platoTextToCmj">>,
    <<"platoTextToPlatoHtml", "platoHtmlToCmj">>,
    <<"platoTextToPlatoHtml", "platoHtmlToPlatoText">> }

Callable(f) ==
  IF pc = "ready" THEN TRUE
  ELSE pc = "returned" /\ Len(calls) = 1 /\ <<calls[1], f>> \in Pipelines

\* The argument of the next call.
Param == IF pc = "ready" THEN input ELSE returned

\* A call starts: the argument is bound and the locals are fresh.
Enter(f) ==
  /\ Callable(f)
  /\ calls' = Append(calls, f)
  /\ arg' = Param
  /\ index' = 0
  /\ lastIndex' = 0
  /\ match' = NoMatch
  /\ messages' = <<>>
  /\ result' = <<>>
  /\ UNCHANGED <<machineConfig, input>>

Running(f) == pc = "loop" /\ Fn = f

(***************************************************************************)
(* platoHtmlToCmj                                                          *)
(***************************************************************************)
platoHtmlToCmj ==
  /\ Enter("platoHtmlToCmj")
  /\ IF NotNonEmptyString(Param)
     THEN /\ pc' = "threw"
          /\ paragraphs' = <<>>
     ELSE /\ pc' = "loop"
          /\ paragraphs' = QuerySelectorAll(ParseFromString(Param.s))
  /\ returned' = Undefined

platoHtmlToCmj_forEach ==
  /\ Running("platoHtmlToCmj")
  /\ index < Len(paragraphs)
  /\ index' = index + 1
  /\ messages' =
       LET p == paragraphs[index + 1]
       IN  IF ~HasSpeakerSpan(p) THEN messages
           ELSE Append(messages,
                       Message(HtmlRole(MarkupSpeaker(p), machineConfig),
                               MarkupSpeaker(p), MarkupUtterance(p)))
  /\ UNCHANGED <<machineConfig, input, calls, pc, arg, paragraphs, lastIndex,
                 match, result, returned>>

platoHtmlToCmj_return ==
  /\ Running("platoHtmlToCmj")
  /\ index = Len(paragraphs)
  /\ pc' = "returned"
  /\ returned' = Arr(messages)
  /\ UNCHANGED <<machineConfig, input, calls, arg, paragraphs, index, lastIndex,
                 match, messages, result>>

(***************************************************************************)
(* platoHtmlToPlatoText                                                    *)
(***************************************************************************)
platoHtmlToPlatoText ==
  /\ Enter("platoHtmlToPlatoText")
  /\ IF NotString(Param)
     THEN /\ pc' = "threw"
          /\ paragraphs' = <<>>
          /\ returned' = Undefined
     ELSE IF Blank(Param.s)
     THEN /\ pc' = "returned"
          /\ paragraphs' = <<>>
          /\ returned' = Str(<<>>)
     ELSE /\ pc' = "loop"
          /\ paragraphs' = QuerySelectorAll(ParseFromString(Param.s))
          /\ returned' = Undefined

platoHtmlToPlatoText_forEach ==
  /\ Running("platoHtmlToPlatoText")
  /\ index < Len(paragraphs)
  /\ index' = index + 1
  /\ result' =
       LET p == paragraphs[index + 1]
       IN  IF ~HasSpeakerSpan(p) THEN result
           ELSE result \o DialogueLine(MarkupSpeaker(p), MarkupUtterance(p))
  /\ UNCHANGED <<machineConfig, input, calls, pc, arg, paragraphs, lastIndex,
                 match, messages, returned>>

platoHtmlToPlatoText_return ==
  /\ Running("platoHtmlToPlatoText")
  /\ index = Len(paragraphs)
  /\ pc' = "returned"
  /\ returned' = Str(result)
  /\ UNCHANGED <<machineConfig, input, calls, arg, paragraphs, index, lastIndex,
                 match, messages, result>>

(***************************************************************************)
(* platoTextToPlatoHtml                                                    *)
(***************************************************************************)
platoTextToPlatoHtml ==
  /\ Enter("platoTextToPlatoHtml")
  /\ paragraphs' = <<>>
  /\ IF NotString(Param)
     THEN /\ pc' = "threw"
          /\ returned' = Undefined
     ELSE IF Blank(Param.s)
     THEN /\ pc' = "returned"
          /\ returned' = Str(<<>>)
     ELSE /\ pc' = "loop"
          /\ returned' = Undefined

\* One turn of the while loop whose regex.exec finds a match.
platoTextToPlatoHtml_while ==
  /\ Running("platoTextToPlatoHtml")
  /\ RegexExec(arg.s, lastIndex).found
  /\ match' = RegexExec(arg.s, lastIndex)
  /\ lastIndex' = match'.end
  /\ result' = result \o DialogueParagraph(TextSpeaker(match'),
                                           EscapeHtml(TextUtterance(match')))
  /\ UNCHANGED <<machineConfig, input, calls, pc, arg, paragraphs, index,
                 messages, returned>>

\* regex.exec returns null (and resets lastIndex): the loop ends, the function returns.
platoTextToPlatoHtml_return ==
  /\ Running("platoTextToPlatoHtml")
  /\ ~RegexExec(arg.s, lastIndex).found
  /\ match' = NoMatch
  /\ lastIndex' = 0
  /\ pc' = "returned"
  /\ returned' = Str(TrimEnd(result))
  /\ UNCHANGED <<machineConfig, input, calls, arg, paragraphs, index, messages,
                 result>>

(***************************************************************************)
(* platoTextToCmj                                                          *)
(***************************************************************************)
platoTextToCmj ==
  /\ Enter("platoTextToCmj")
  /\ paragraphs' = <<>>
  /\ pc' = IF NotNonEmptyString(Param) THEN "threw" ELSE "loop"
  /\ returned' = Undefined

platoTextToCmj_while ==
  /\ Running("platoTextToCmj")
  /\ RegexExec(arg.s, lastIndex).found
  /\ match' = RegexExec(arg.s, lastIndex)
  /\ lastIndex' = match'.end
  /\ messages' = Append(messages,
                        Message(TextRole(TextSpeaker(match')), TextSpeaker(match'),
                                TextUtterance(match')))
  /\ UNCHANGED <<machineConfig, input, calls, pc, arg, paragraphs, index,
                 result, returned>>

platoTextToCmj_return ==
  /\ Running("platoTextToCmj")
  /\ ~RegexExec(arg.s, lastIndex).found
  /\ match' = NoMatch
  /\ lastIndex' = 0
  /\ pc' = "returned"
  /\ returned' = Arr(messages)
  /\ UNCHANGED <<machineConfig, input, calls, arg, paragraphs, index, messages,
                 result>>

(***************************************************************************)
(* CmjToPlatoText                                                          *)
(***************************************************************************)
CmjToPlatoText ==
  /\ Enter("CmjToPlatoText")
  /\ paragraphs' = <<>>
  /\ IF ~IsArray(Param)
     THEN /\ pc' = "returned"
          /\ returned' = Str(<<>>)
     ELSE /\ pc' = "loop"
          /\ returned' = Undefined

CmjToPlatoText_forEach ==
  /\ Running("CmjToPlatoText")
  /\ index < Len(arg.a)
  /\ index' = index + 1
  /\ result' =
       LET message == arg.a[index + 1]
       IN  IF WellFormedMessage(message)
           THEN result \o DialogueLine(Trim(message.name.s), Trim(message.content.s))
           ELSE result
  /\ UNCHANGED <<machineConfig, input, calls, pc, arg, paragraphs, lastIndex,
                 match, messages, returned>>

CmjToPlatoText_return ==
  /\ Running("CmjToPlatoText")
  /\ index = Len(arg.a)
  /\ pc' = "returned"
  /\ returned' = Str(result)
  /\ UNCHANGED <<machineConfig, input, calls, arg, paragraphs, index, lastIndex,
                 match, messages, result>>

(***************************************************************************)
(* The caller's inputs.                                                    *)
(***************************************************************************)
MaxBlocks == 2

MaxParagraphs == 2

MaxMessages == 2

\* The sequences of at most n elements of S.
SeqsUpTo(S, n) == UNION {[1..k -> S] : k \in 0..n}

\* The concatenation of the pieces lo..hi of a sequence of strings.
RECURSIVE FlattenRange(_, _, _)
FlattenRange(pieces, lo, hi) ==
  IF lo > hi THEN <<>>
  ELSE IF lo = hi THEN pieces[lo]
  ELSE FlattenRange(pieces, lo, (lo + hi) \div 2)
         \o FlattenRange(pieces, (lo + hi) \div 2 + 1, hi)

Flatten(pieces) == FlattenRange(pieces, 1, Len(pieces))

\* Pieces of platoText: blocks that follow the format and text that does not.
TextBlocks ==
  { <<"B", "o", "b", ":", " ", "H", "i", " ", "<", "t", "h", "e", "r", "e",
      ">", "\n", "\n">>,
    <<"A", "l", ":", "a", "\n", "b", "\n", "\n">>,
    <<"B", "o", "b", ":", " ", "\n", "\n">>,
    <<"x", ".", "\n">>,
    <<" ", "A", "l", " ", ":", " ", "a", ":", " ", "b", " ", "\n", "\n">>,
    <<"b", "o", "b", ":", " ", "&", "l", "t", ";", "\n", "\n">>,
    <<":", "x", "\n", "\n">>,
    <<"A", "l", ":", " ", "z", "\n">>,
    <<"i", "n", "s", "t", "r", "u", "c", "t", "i", "o", "n", "s", ":", " ",
      "c", "\n", "\n">>,
    <<" ", " ", ":", " ", "e", "\n", "\n">> }

\* The three-block transcript of the documented scenario.
ScenarioText ==
  <<"M", "A", "C", "H", "I", "N", "A", " ", "R", "A", "T", "I", "O", "C",
    "I", "N", "A", "T", "R", "I", "X", ":", " ", "H", "e", "l", "l", "o",
    " ", "t", "h", "e", "r", "e", ".", "\n", "\n", "I", "N", "S", "T", "R",
    "U", "C", "T", "I", "O", "N", "S", ":", " ", "B", "e", " ", "c", "o",
    "n", "c", "i", "s", "e", ".", "\n", "\n", "A", "l", "i", "c", "e", ":",
    " ", "H", "i", "!", "\n", "\n">>

BlankStrings == { <<>>, <<" ">>, <<"\n", "\n">>, <<" ", "\t", "\n">> }

TextInputs ==
  {Flatten(bs) : bs \in SeqsUpTo(TextBlocks, MaxBlocks)} \cup {ScenarioText} \cup BlankStrings

\* Pieces of platoHtml: dialogue paragraphs with and without a speaker span, a
\* paragraph that is no dialogue, an unclosed paragraph, text outside paragraphs.
HtmlBlocks ==
  { <<"<", "p", " ", "c", "l", "a", "s", "s", "=", "\"", "d", "i", "a", "l",
      "o", "g", "u", "e", "\"", ">", "<", "s", "p", "a", "n", " ", "c",
      "l", "a", "s", "s", "=", "\"", "s", "p", "e", "a", "k", "e", "r",
      "\"", ">", "B", "o", "b", "<", "/", "s", "p", "a", "n", ">", " ",
      "H", "i", "<", "/", "p", ">">>,
    <<"<", "p", " ", "c", "l", "a", "s", "s", "=", "\"", "d", "i", "a", "l",
      "o", "g", "u", "e", "\"", ">", "<", "s", "p", "a", "n", " ", "c",
      "l", "a", "s", "s", "=", "\"", "s", "p", "e", "a", "k", "e", "r",
      "\"", ">", "A", "l", "<", "/", "s", "p", "a", "n", ">", ":", " ",
      "a", ":", " ", "b", "<", "/", "p", ">">>,
    <<"<", "p", " ", "c", "l", "a", "s", "s", "=", "\"", "d", "i", "a", "l",
      "o", "g", "u", "e", "\"", ">", "H", "i", "<", "/", "p", ">">>,
    <<"<", "p", ">", "<", "s", "p", "a", "n", " ", "c", "l", "a", "s", "s",
      "=", "\"", "s", "p", "e", "a", "k", "e", "r", "\"", ">", "A", "l",
      "<", "/", "s", "p", "a", "n", ">", " ", "x", "<", "/", "p", ">">>,
    <<"<", "p", " ", "c", "l", "a", "s", "s", "=", "\"", "d", "i", "a", "l",
      "o", "g", "u", "e", "\"", ">", "<", "s", "p", "a", "n", " ", "c",
      "l", "a", "s", "s", "=", "\"", "s", "p", "e", "a", "k", "e", "r",
      "\"", ">", " ", "i", "n", "s", "t", "r", "u", "c", "t", "i", "o",
      "n", "s", " ", "<", "/", "s", "p", "a", "n", ">", " ", "c", ":",
      "d", "<", "/", "p", ">", "\n">>,
    <<"<", "p", " ", "c", "l", "a", "s", "s", "=", "\"", "d", "i", "a", "l",
      "o", "g", "u", "e", "\"", ">", "B", "o", "b", " ", "<", "s", "p",
      "a", "n", " ", "c", "l", "a", "s", "s", "=", "\"", "s", "p", "e",
      "a", "k", "e", "r", "\"", ">", "B", "o", "b", "<", "/", "s", "p",
      "a", "n", ">", ":", " ", "&", "l", "t", ";", "i", "&", "g", "t",
      ";", "<", "/", "p", ">">>,
    <<"x", "\n">>,
    <<"<", "p", " ", "c", "l", "a", "s", "s", "=", "\"", "d", "i", "a", "l",
      "o", "g", "u", "e", "\"", ">", "<", "s", "p", "a", "n", " ", "c",
      "l", "a", "s", "s", "=", "\"", "s", "p", "e", "a", "k", "e", "r",
      "\"", ">", "B", "O", "B", "<", "/", "s", "p", "a", "n", ">", " ",
      "x", " ", "&", "a", "m", "p", ";", " ", "y">> }

HtmlInputs == {Flatten(bs) : bs \in SeqsUpTo(HtmlBlocks, MaxParagraphs)}

\* Values of machineConfig.name.
MachineNames == { sMACHINA, <<"B", "O", "B">>, <<"A", "l">> }

\* Elements of a CMJ array: message objects, and entries that are none.
MessageNames ==
  { <<" ", "A", "l", " ">>,
    <<>>,
    <<"A", ".", "b">>,
    <<"i", "n", "s", "t", "r", "u", "c", "t", "i", "o", "n", "s">> }

MessageContents ==
  { <<"H", "i">>,
    <<" ", "a", ":", " ", "b", "\n">>,
    <<>>,
    <<"x", "\n", "\n", "y">> }

Elements ==
  {Message(TextRole(Trim(n)), n, c) : n \in MessageNames, c \in MessageContents}
    \cup { Element("null"), Element("number"),
           [Element("object") EXCEPT !.content = Str(<<"H", "i">>)],
           [Element("object") EXCEPT !.name = Str(<<"A", "l">>), !.content = Prim("number")],
           Message(sUser, sINSTRUCTIONS, <<"H", "i">>) }

CmjInputs == {Arr(ms) : ms \in SeqsUpTo(Elements, MaxMessages)}

\* Arguments that are neither a string nor an array.
OtherInputs == {Prim(type) : type \in {"null", "undefined", "zero", "number", "object"}}

Inputs ==
  {Str(chars) : chars \in TextInputs \cup HtmlInputs} \cup CmjInputs \cup OtherInputs

Init ==
  /\ input \in Inputs
  /\ machineConfig \in IF input.t = "string" /\ input.s \in HtmlInputs
                       THEN MachineNames ELSE {sMACHINA}
  /\ calls = <<>>
  /\ pc = "ready"
  /\ arg = Undefined
  /\ paragraphs = <<>>
  /\ index = 0
  /\ lastIndex = 0
  /\ match = NoMatch
  /\ messages = <<>>
  /\ result = <<>>
  /\ returned = Undefined

Next ==
  \/ platoHtmlToCmj
  \/ platoHtmlToCmj_forEach
  \/ platoHtmlToCmj_return
  \/ platoHtmlToPlatoText
  \/ platoHtmlToPlatoText_forEach
  \/ platoHtmlToPlatoText_return
  \/ platoTextToPlatoHtml
  \/ platoTextToPlatoHtml_while
  \/ platoTextToPlatoHtml_return
  \/ platoTextToCmj
  \/ platoTextToCmj_while
  \/ platoTextToCmj_return
  \/ CmjToPlatoText
  \/ CmjToPlatoText_forEach
  \/ CmjToPlatoText_return

Spec == Init /\ [][Next]_vars

(***************************************************************************)
(* What the properties below speak of.                                     *)
(***************************************************************************)
Done(f) == pc = "returned" /\ Fn = f

\* The (name, content) pairs of an array of messages.
Pairs(elements) ==
  [k \in DOMAIN elements |-> <<elements[k].name.s, elements[k].content.s>>]

\* Every match of the block pattern in s, found one after the other from lastIndex.
RECURSIVE AllMatches(_, _)
AllMatches(s, from) ==
  IF RegexExec(s, from).found
  THEN <<RegexExec(s, from)>> \o AllMatches(s, RegexExec(s, from).end)
  ELSE <<>>

\* The (speaker, utterance) pairs of the text extraction of s.
TextPairs(s) ==
  [k \in DOMAIN AllMatches(s, 0) |->
     <<Trim(AllMatches(s, 0)[k].label), Trim(AllMatches(s, 0)[k].content)>>]

IsBlankString(v) == v.t = "string" /\ \A k \in DOMAIN v.s : v.s[k] \in WhiteSpace

NonEmptyString(v) == v.t = "string" /\ v.s # <<>>

Occurrences(s, c) == Cardinality({k \in DOMAIN s : s[k] = c})

EndsWith(s, suffix) ==
  /\ Len(suffix) <= Len(s)
  /\ SubSeq(s, Len(s) - Len(suffix) + 1, Len(s)) = suffix

(***************************************************************************)
(* C1.  Round trip CMJ -> text -> CMJ.                                     *)
(***************************************************************************)
\* An array of message objects with string name and content, each with the role
\* the classifier of platoTextToCmj gives its name.
ClassifiedMessages(v) ==
  /\ v.t = "array"
  /\ \A k \in DOMAIN v.a :
       /\ v.a[k].t = "object"
       /\ v.a[k].name.t = "string" /\ v.a[k].content.t = "string"
       /\ v.a[k].role.t = "string"
       /\ LET n == ToUpperCase(Trim(v.a[k].name.s))
          IN  v.a[k].role.s = (IF n = sMACHINA THEN sAssistant
                               ELSE IF n = sINSTRUCTIONS THEN sSystem ELSE sUser)

\* The i-th message of the result is the i-th message of the input, trimmed.
RoundTripped ==
  /\ returned.t = "array"
  /\ Len(returned.a) = Len(input.a)
  /\ \A k \in DOMAIN input.a :
       /\ returned.a[k].role = input.a[k].role
       /\ returned.a[k].name.s = Trim(input.a[k].name.s)
       /\ returned.a[k].content.s = Trim(input.a[k].content.s)

CmjRoundTripDone ==
  /\ calls = <<"CmjToPlatoText", "platoTextToCmj">>
  /\ pc = "returned"

Carried(message) ==
  /\ Trim(message.name.s) # <<>>
  /\ \A k \in DOMAIN Trim(message.name.s) : Trim(message.name.s)[k] \in LabelChars
  /\ Trim(message.content.s) # <<>>
  /\ \A k \in 1..(Len(Trim(message.content.s)) - 1) :
       ~(Trim(message.content.s)[k] = "\n" /\ Trim(message.content.s)[k + 1] = "\n")

RECURSIVE Tiled(_, _, _)
Tiled(s, ms, k) ==
  IF k > Len(ms) THEN TRUE
  ELSE /\ ms[k].index = (IF k = 1 THEN 0 ELSE ms[k - 1].end)
       /\ (k = Len(ms) => ms[k].end = Len(s))
       /\ Tiled(s, ms, k + 1)

WellFormedText(v) ==
  /\ v.t = "string"
  /\ AllMatches(v.s, 0) # <<>>
  /\ Tiled(v.s, AllMatches(v.s, 0), 1)
  /\ \A k \in DOMAIN AllMatches(v.s, 0) :
       /\ Trim(AllMatches(v.s, 0)[k].content) # <<>>
       /\ Trim(AllMatches(v.s, 0)[k].label) # <<>>

\* C2 as stated: for well-formed platoText T with non-empty blocks, the pairs
\* platoHtmlToCmj extracts from platoTextToPlatoHtml(T) are the pairs of the text
\* extraction of T.
C2_HtmlRoundTripKeepsPairs ==
  (/\ calls = <<"platoTextToPlatoHtml", "platoHtmlToCmj">>
   /\ pc = "returned"
   /\ WellFormedText(input))
    => Pairs(returned.a) = TextPairs(input.s)

(***************************************************************************)
(* C3.  The utterance of a dialogue paragraph.                             *)
(***************************************************************************)
\* One ':' is removed, with the white space after it, only where it leads.
StripLeadingColon(s) ==
  IF s # <<>> /\ s[1] = ":" THEN SubSeq(s, RunEnd(s, 2, WhiteSpace), Len(s)) ELSE s

StatedUtterance(p) ==
  Trim(StripLeadingColon(ReplaceFirst(TextContent(p), SpeakerSpan(p).text)))

\* C3 as stated: the record of the paragraph forEach has just visited holds the
\* paragraph's text without the first occurrence of the speaker text and without
\* a leading ':', trimmed; a later ':' stays.
C3_UtteranceLosesOnlyLeadingColon ==
  (/\ pc = "loop"
   /\ Fn \in {"platoHtmlToCmj", "platoHtmlToPlatoText"}
   /\ index >= 1)
    => (HasSpeakerSpan(paragraphs[index])
          => IF Fn = "platoHtmlToCmj"
             THEN messages[Len(messages)].content.s = StatedUtterance(paragraphs[index])
             ELSE EndsWith(result,
                           <<":", " ">> \o StatedUtterance(paragraphs[index]) \o <<"\n", "\n">>))

(***************************************************************************)
(* C4.  The role is a function of the name.                                *)
(***************************************************************************)
\* The assistant identity of the function that is running.
Identity == IF Fn = "platoHtmlToCmj" THEN machineConfig ELSE sMACHINA

\* C4: every message of platoHtmlToCmj and platoTextToCmj has the role 'assistant'
\* if its upper-cased name is the function's assistant identity, else 'system' if
\* it is 'INSTRUCTIONS', else 'user'; names that differ only in case have the
\* same role.
C4_RoleFromName ==
  Fn \in {"platoHtmlToCmj", "platoTextToCmj"} =>
    /\ \A k \in DOMAIN messages :
         LET n == ToUpperCase(messages[k].name.s)
         IN  /\ (n = Identity) => messages[k].role.s = sAssistant
             /\ (n # Identity /\ n = sINSTRUCTIONS) => messages[k].role.s = sSystem
             /\ (n # Identity /\ n # sINSTRUCTIONS) => messages[k].role.s = sUser
    /\ \A k, h \in DOMAIN messages :
         ToUpperCase(messages[k].name.s) = ToUpperCase(messages[h].name.s)
           => messages[k].role = messages[h].role

\* platoHtmlToCmj has given two speakers that differ only in case the role
\* 'assistant'.
C4_Witness ==
  /\ Fn = "platoHtmlToCmj"
  /\ \E k, h \in DOMAIN messages :
       /\ messages[k].name # messages[h].name
       /\ ToUpperCase(messages[k].name.s) = machineConfig
       /\ ToUpperCase(messages[h].name.s) = machineConfig
       /\ messages[k].role.s = sAssistant
       /\ messages[h].role.s = sAssistant

(***************************************************************************)
(* C5.  Invalid input of the CMJ-producing functions.                      *)
(***************************************************************************)
\* C5: platoHtmlToCmj and platoTextToCmj throw exactly when the argument is not a
\* non-empty string, and then produce no messages; platoTextToCmj returns an
\* empty array for a string of white space.
C5_ThrowsUnlessNonEmptyString ==
  Fn \in {"platoHtmlToCmj", "platoTextToCmj"} =>
    /\ (pc = "threw") <=> ~NonEmptyString(arg)
    /\ (pc = "threw") => (messages = <<>> /\ returned = Undefined)
    /\ (Done("platoTextToCmj") /\ IsBlankString(arg)) => returned = Arr(<<>>)

\* platoTextToCmj has taken a string of white space and returned the empty array.
C5_Witness ==
  /\ Done("platoTextToCmj")
  /\ arg = Str(<<" ", "\t", "\n">>)
  /\ returned = Arr(<<>>)

(***************************************************************************)
(* C6.  Blank input of the string-producing functions.                     *)
(***************************************************************************)
\* C6: platoHtmlToPlatoText and platoTextToPlatoHtml throw exactly when the
\* argument is no string, and return '' for a string that is empty or white space.
C6_BlankGivesEmptyString ==
  Fn \in {"platoHtmlToPlatoText", "platoTextToPlatoHtml"} =>
    /\ (pc = "threw") <=> arg.t # "string"
    /\ IsBlankString(arg) => (pc = "returned" /\ returned = Str(<<>>))

C6_Witness ==
  /\ Done("platoTextToPlatoHtml")
  /\ arg = Str(<<" ", "\t", "\n">>)
  /\ returned = Str(<<>>)

(***************************************************************************)
(* C7.  CmjToPlatoText skips malformed entries.                            *)
(***************************************************************************)
\* An entry that is an object with a string name and a string content.
ObjectWithStrings(e) == e.t = "object" /\ e.name.t = "string" /\ e.content.t = "string"

StatedLine(e) == Trim(e.name.s) \o <<":", " ">> \o Trim(e.content.s) \o <<"\n", "\n">>

StatedText(elements) ==
  LET kept == SelectSeq(elements, ObjectWithStrings)
  IN  Flatten([k \in DOMAIN kept |-> StatedLine(kept[k])])

\* C7: CmjToPlatoText never throws; it returns '' for an argument that is no
\* array, and for an array the lines '<name>: <content>' of the entries that are
\* objects with string name and content, in order, the other entries skipped.
C7_SkipsMalformedEntries ==
  Fn = "CmjToPlatoText" =>
    /\ pc # "threw"
    /\ (pc = "returned" /\ arg.t # "array") => returned = Str(<<>>)
    /\ (pc = "loop" /\ arg.t = "array") => result = StatedText(SubSeq(arg.a, 1, index))
    /\ (pc = "returned" /\ arg.t = "array") => returned = Str(StatedText(arg.a))

\* A malformed entry was skipped and the message after it is in the output.
C7_Witness ==
  /\ Done("CmjToPlatoText")
  /\ arg.t = "array"
  /\ Len(arg.a) = 2
  /\ ~ObjectWithStrings(arg.a[1])
  /\ ObjectWithStrings(arg.a[2])
  /\ returned = Str(StatedLine(arg.a[2]))

(***************************************************************************)
(* C8.  The output of platoTextToPlatoHtml.                                *)
(***************************************************************************)
\* Every '<' replaced by '&lt;', every '>' by '&gt;', nothing else changed.
StatedEscape(s) ==
  Flatten([k \in DOMAIN s |-> IF s[k] = "<" THEN sLt ELSE IF s[k] = ">" THEN sGt ELSE <<s[k]>>])

StatedParagraph(m) ==
  sPOpenDialogue \o sSpanOpenSpeaker \o Trim(m.label) \o sSpanClose \o <<" ">>
    \o StatedEscape(Trim(m.content)) \o sPClose

\* The paragraphs joined by single newlines, none after the last.
StatedHtml(ms) ==
  Flatten([k \in DOMAIN ms |-> IF k = 1 THEN StatedParagraph(ms[k])
                                ELSE <<"\n">> \o StatedParagraph(ms[k])])

\* C8: for a string that is not blank platoTextToPlatoHtml returns the matched
\* blocks as paragraphs, in order, joined by single newlines, with '<' and '>' of
\* the utterances escaped; the only '<' and '>' of the output are those of the
\* four tags of each paragraph.
C8_HtmlOutputShape ==
  (Done("platoTextToPlatoHtml") /\ arg.t = "string" /\ ~IsBlankString(arg)) =>
    /\ returned = Str(StatedHtml(AllMatches(arg.s, 0)))
    /\ Occurrences(returned.s, "<") = 4 * Len(AllMatches(arg.s, 0))
    /\ Occurrences(returned.s, ">") = 4 * Len(AllMatches(arg.s, 0))
    /\ (returned.s # <<>> => returned.s[Len(returned.s)] # "\n")

\* The documented scenario: textToHtml("Bob: Hi <there>\n\n").
C8_Witness ==
  /\ Done("platoTextToPlatoHtml")
  /\ arg = Str(<<"B", "o", "b", ":", " ", "H", "i", " ", "<", "t", "h", "e",
               "r", "e", ">", "\n", "\n">>)
  /\ returned = Str(<<"<", "p", " ", "c", "l", "a", "s", "s", "=", "\"", "d",
                      "i", "a", "l", "o", "g", "u", "e",
                      "\"", ">", "<", "s", "p", "a", "n",
                      " ", "c", "l", "a", "s", "s", "=",
                      "\"", "s", "p", "e", "a", "k", "e",
                      "r", "\"", ">", "B", "o", "b", "<",
                      "/", "s", "p", "a", "n", ">", " ",
                      "H", "i", " ", "&", "l", "t", ";",
                      "t", "h", "e", "r", "e", "&", "g",
                      "t", ";", "<", "/", "p", ">">>)

(***************************************************************************)
(* C9.  One record per dialogue paragraph with a speaker span.             *)
(***************************************************************************)
\* The dialogue paragraphs of the document that have a speaker span, in
\* document order, each as its (speaker, utterance) pair.
SpeakerPairs(doc) ==
  LET ps == SelectSeq(doc, LAMBDA p : p.class = "dialogue" /\ HasSpeakerSpan(p))
  IN  [k \in DOMAIN ps |-> <<MarkupSpeaker(ps[k]), MarkupUtterance(ps[k])>>]

PairLines(pairs) ==
  Flatten([k \in DOMAIN pairs |-> pairs[k][1] \o <<":", " ">> \o pairs[k][2] \o <<"\n", "\n">>])

\* C9: platoHtmlToCmj and platoHtmlToPlatoText do not throw on a non-empty
\* string and return one record for each dialogue paragraph with a speaker span,
\* in document order, and none for the others: the same pairs from both.
C9_OneRecordPerSpeakerParagraph ==
  /\ (Fn \in {"platoHtmlToCmj", "platoHtmlToPlatoText"} /\ NonEmptyString(arg))
       => pc # "threw"
  /\ Done("platoHtmlToCmj")
       => Pairs(returned.a) = SpeakerPairs(ParseFromString(arg.s))
  /\ (Done("platoHtmlToPlatoText") /\ ~IsBlankString(arg))
       => returned.s = PairLines(SpeakerPairs(ParseFromString(arg.s)))

\* A dialogue paragraph without a speaker span came first and left no record;
\* the paragraph after it has its record.
C9_Witness ==
  /\ Done("platoHtmlToCmj")
  /\ Len(paragraphs) = 2
  /\ ~HasSpeakerSpan(paragraphs[1])
  /\ HasSpeakerSpan(paragraphs[2])
  /\ Len(returned.a) = 1
  /\ returned.a[1].name.s = MarkupSpeaker(paragraphs[2])

(***************************************************************************)
(* C10.  The scan of the text extraction loop.                             *)
(***************************************************************************)
InTextLoop == pc = "loop" /\ Fn \in {"platoTextToCmj", "platoTextToPlatoHtml"}

\* The characters of m are '<label>:', white space, the content, a blank line,
\* with a non-empty label of label characters.
BlockShaped(s, m) ==
  LET text == SubSeq(s, m.index + 1, m.end)
      space == SubSeq(text, Len(m.label) + 2, Len(text) - Len(m.content) - 2)
  IN  /\ m.label # <<>>
      /\ \A k \in DOMAIN m.label : m.label[k] \in LabelChars
      /\ \A k \in DOMAIN space : space[k] \in WhiteSpace
      /\ text = m.label \o <<":">> \o space \o m.content \o <<"\n", "\n">>

\* One turn of the loop: the match lies at or after the end of the one before,
\* the next search starts at its end, and the output grows by the one record
\* made of the match.
ScanStep ==
  (InTextLoop /\ InTextLoop') =>
    /\ match'.found
    /\ match'.index >= lastIndex
    /\ match'.end > match'.index
    /\ lastIndex' = match'.end
    /\ BlockShaped(arg.s, match')
    /\ IF Fn = "platoTextToCmj"
       THEN /\ Len(messages') = Len(messages) + 1
            /\ SubSeq(messages', 1, Len(messages)) = messages
            /\ messages'[Len(messages')].name.s = Trim(match'.label)
            /\ messages'[Len(messages')].content.s = Trim(match'.content)
       ELSE /\ Len(result') > Len(result)
            /\ SubSeq(result', 1, Len(result)) = result
            /\ SubSeq(result', Len(result) + 1, Len(result'))
                 = StatedParagraph(match') \o <<"\n">>

ScenarioMessages ==
  << Message(sAssistant, sMACHINA, <<"H", "e", "l", "l", "o", " ", "t", "h", "e",
                                "r", "e", ".">>),
     Message(sSystem, sINSTRUCTIONS, <<"B", "e", " ", "c", "o", "n", "c", "i", "s",
                                "e", ".">>),
     Message(sUser, <<"A", "l", "i", "c", "e">>, <<"H", "i", "!">>) >>

\* The output starts empty, changes only in a turn of the loop, and is what is
\* returned; the scenario's three blocks give its three messages.
ScanResult ==
  /\ (InTextLoop /\ lastIndex = 0) => (messages = <<>> /\ result = <<>>)
  /\ Done("platoTextToCmj") => returned = Arr(messages)
  /\ (Done("platoTextToCmj") /\ arg = Str(ScenarioText)) => returned = Arr(ScenarioMessages)

\* C10: the text extraction scans left to right: each match is a block, it is
\* searched from the end of the match before, matches do not overlap, the records
\* are in the order of the matches, text in no match adds nothing, and the
\* scenario's input gives the three messages assistant, system, user.
C10_LeftToRightScan == []ScanResult /\ [][ScanStep]_vars

\* The scenario has run: three matches, each starting where the one before ended.
C10_Witness ==
  /\ Done("platoTextToCmj")
  /\ arg = Str(ScenarioText)
  /\ Len(returned.a) = 3

=============================================================================
